---- MODULE Spec2Model ----
(***************************************************************************)
(* Provider registry: the in-memory store (server/storage.ts, MemStorage)  *)
(* and the API handlers in front of it (server/routes.ts).                 *)
(*                                                                         *)
(* Encoding.                                                               *)
(*  - A string is a sequence of one-character strings, so toLowerCase and  *)
(*    includes are computed character by character.                        *)
(*  - A value that may be null / undefined / absent is a sequence of       *)
(*    length 0 (None) or 1 (Some(v)).                                      *)
(*  - rating and distance are held in tenths (4.5 is 45).                  *)
(*  - The provider Map is a sequence of records in insertion order, which  *)
(*    is the iteration order of a JavaScript Map.                          *)
(*  - Array.prototype.filter is SelectSeq: it keeps the order of the kept  *)
(*    elements.                                                            *)
(***************************************************************************)
EXTENDS Integers, Sequences, FiniteSets, TLC

VARIABLES providers, currentProviderId, specialties, insurancePlans,
          currentSpecialtyId, currentInsurancePlanId, result

vars == <<providers, currentProviderId, specialties, insurancePlans,
          currentSpecialtyId, currentInsurancePlanId, result>>

storeVars == <<providers, currentProviderId>>

refVars == <<specialties, insurancePlans, currentSpecialtyId, currentInsurancePlanId>>

(***************************************************************************)
(* Bounds of the model.                                                    *)
(***************************************************************************)
MaxProviders == 2

MaxPage == 3

\* createSpecialty and createInsurancePlan calls, each.
MaxRefCreates == 2

\* Ratings of the score's inputs run from -MaxScoreRating to MaxScoreRating
\* stars, review counts from 0 to MaxReviewCount.
MaxScoreRating == 2

MaxReviewCount == 3

\* Calls whose answer has not been handed to the caller yet.
MaxInFlight == 2

MaxLimit == 2

(***************************************************************************)
(* Optional values.                                                        *)
(***************************************************************************)
None == <<>>

Some(v) == <<v>>

Present(o) == o # <<>>

Val(o) == o[1]

(***************************************************************************)
(* Strings.                                                                *)
(***************************************************************************)
LowerChar(c) ==
  CASE c = "A" -> "a" [] c = "B" -> "b" [] c = "C" -> "c" [] c = "D" -> "d"
    [] c = "E" -> "e" [] c = "F" -> "f" [] c = "G" -> "g" [] c = "H" -> "h"
    [] c = "I" -> "i" [] c = "J" -> "j" [] c = "K" -> "k" [] c = "L" -> "l"
    [] c = "M" -> "m" [] c = "N" -> "n" [] c = "O" -> "o" [] c = "P" -> "p"
    [] c = "Q" -> "q" [] c = "R" -> "r" [] c = "S" -> "s" [] c = "T" -> "t"
    [] c = "U" -> "u" [] c = "V" -> "v" [] c = "W" -> "w" [] c = "X" -> "x"
    [] c = "Y" -> "y" [] c = "Z" -> "z" [] OTHER -> c

ToLowerCase(s) == [i \in 1..Len(s) |-> LowerChar(s[i])]

\* String.prototype.includes: q occurs in s at some offset (the empty q always).
Includes(s, q) ==
  \E off \in 0..(Len(s) - Len(q)) : SubSeq(s, off + 1, off + Len(q)) = q

\* Array.prototype.slice(start, end), negative indexes counting from the end.
Slice(arr, start, end) ==
  LET len == Len(arr)
      relStart == IF start < 0
                    THEN (IF len + start > 0 THEN len + start ELSE 0)
                    ELSE (IF start < len THEN start ELSE len)
      relEnd == IF end < 0
                  THEN (IF len + end > 0 THEN len + end ELSE 0)
                  ELSE (IF end < len THEN end ELSE len)
  IN SubSeq(arr, relStart + 1, relEnd)

(***************************************************************************)
(* Provider data handed to createProvider (InsertProvider values).  The    *)
(* records keep the fields the storage layer reads; the text is shortened. *)
(***************************************************************************)
SarahJohnson ==
  [name |-> <<"S","a","r","a","h">>,
   specialty |-> <<"C","a","r","d","i","o","l","o","g","y">>,
   officeAddress |-> Some([street |-> <<"1"," ","P","k">>, city |-> <<"N","Y","C">>, state |-> <<"N","Y">>, zipCode |-> <<"1","0">>]),
   about |-> <<"H","e","a","r","t">>,
   insurances |-> Some(<<<<"A","e","t","n","a">>, <<"C","i","g","n","a">>>>),
   nextAvailable |-> Some(<<"T","o","d","a","y",","," ","2">>),
   acceptingNewPatients |-> Some(TRUE), hasVirtualVisits |-> Some(FALSE),
   languages |-> Some(<<<<"E","n">>, <<"S","p","a","n","i","s","h">>>>), isSpanishSpeaking |-> Some(TRUE),
   rating |-> 45, reviewCount |-> 3, distance |-> Some(23)]

MichaelChen ==
  [name |-> <<"C","h","e","n">>,
   specialty |-> <<"d","e","r","m","a","t","o","l","o","g","y">>,
   officeAddress |-> Some([street |-> <<"2"," ","E","l","m">>, city |-> <<"L","A">>, state |-> <<"C","A">>, zipCode |-> <<"9","0">>]),
   about |-> <<"S","k","i","n",","," ","C","a","r","d","i","o">>,
   insurances |-> Some(<<<<"A","E","T","N","A">>>>),
   nextAvailable |-> Some(<<"T","o","m","o","r","r","o","w">>),
   acceptingNewPatients |-> Some(FALSE), hasVirtualVisits |-> Some(TRUE),
   languages |-> Some(<<<<"S","P","A","N","I","S","H">>>>), isSpanishSpeaking |-> Some(FALSE),
   rating |-> 50, reviewCount |-> 0, distance |-> None]

NullishProvider ==
  [name |-> <<"L","e","e">>,
   specialty |-> <<"N","e","u","r","o","l","o","g","y">>,
   officeAddress |-> None,
   about |-> <<>>,
   insurances |-> None,
   nextAvailable |-> None,
   acceptingNewPatients |-> None, hasVirtualVisits |-> None,
   languages |-> None, isSpanishSpeaking |-> Some(TRUE),
   rating |-> 30, reviewCount |-> 1, distance |-> Some(0)]

DavidKim ==
  [name |-> <<"K","i","m">>,
   specialty |-> <<"C","A","R","D","I","O","L","O","G","Y">>,
   officeAddress |-> Some([street |-> <<"3"," ","O","a","k">>, city |-> <<"N","Y","C">>, state |-> <<"N","Y">>, zipCode |-> <<"1","1">>]),
   about |-> <<"E","y","e","s">>,
   insurances |-> Some(<<<<"O","s","c","a","r">>>>),
   nextAvailable |-> Some(<<"F","r","i","d","a","y","/","S","u","n","d","a","y">>),
   acceptingNewPatients |-> Some(TRUE), hasVirtualVisits |-> Some(TRUE),
   languages |-> Some(<<<<"E","n">>>>), isSpanishSpeaking |-> Some(FALSE),
   rating |-> 45, reviewCount |-> 3, distance |-> Some(23)]

NoSlotProvider ==
  [name |-> <<"C","a","r","d","i","o">>,
   specialty |-> <<"D","e","n","t","i","s","t","r","y">>,
   officeAddress |-> Some([street |-> <<"4"," ","A","s","h">>, city |-> <<"S","F">>, state |-> <<"C","A">>, zipCode |-> <<"9","4">>]),
   about |-> <<"T","e","e","t","h">>,
   insurances |-> Some(<<>>),
   nextAvailable |-> Some(<<"N","e","x","t"," ","m","o","n","t","h">>),
   acceptingNewPatients |-> Some(TRUE), hasVirtualVisits |-> Some(FALSE),
   languages |-> Some(<<<<"E","s","p","a","n","o","l">>>>), isSpanishSpeaking |-> Some(TRUE),
   rating |-> 40, reviewCount |-> 8, distance |-> Some(15)]

ProviderInputs == <<SarahJohnson, MichaelChen, NullishProvider, DavidKim, NoSlotProvider>>

(***************************************************************************)
(* MemStorage.sortProviders: a copy of the list, sorted by the comparator  *)
(* of the sort key.  Array.prototype.sort is stable.                       *)
(***************************************************************************)
\* Math.log(n) for the review counts of the model, times 10^6.
LogMicro(n) ==
  CASE n = 1 -> 0       [] n = 2 -> 693147  [] n = 3 -> 1098612
    [] n = 4 -> 1386294 [] n = 5 -> 1609438 [] n = 6 -> 1791759
    [] n = 7 -> 1945910 [] n = 8 -> 2079441 [] n = 9 -> 2197224

\* A missing distance ordered after every distance there is.
DistanceMissingLast(p) == IF Present(p.distance) THEN Val(p.distance) ELSE 1000000

\* a.distance || 0
DistanceOrZero(p) == IF Present(p.distance) THEN Val(p.distance) ELSE 0

\* a.nextAvailable?.toLowerCase().includes(token) ? 1 : 0
HasToken(p, token) ==
  IF Present(p.nextAvailable) /\ Includes(ToLowerCase(Val(p.nextAvailable)), token)
    THEN 1 ELSE 0

\* The score with its sign turned.
RelevanceScoreNegated(p) == (0 - p.rating) * LogMicro(p.reviewCount + 1)

\* b.rating * Math.log(b.reviewCount + 1)
RelevanceScore(p) == p.rating * LogMicro(p.reviewCount + 1)

\* The comparator with the rating case in ascending order.
CompareRatingAscending(a, b, sort) ==
  CASE sort = "distance" -> DistanceOrZero(a) - DistanceOrZero(b)
    [] sort = "rating" -> a.rating - b.rating
    [] sort = "availability" ->
         IF HasToken(a, <<"t","o","d","a","y">>) # HasToken(b, <<"t","o","d","a","y">>)
           THEN HasToken(b, <<"t","o","d","a","y">>) - HasToken(a, <<"t","o","d","a","y">>)
           ELSE HasToken(b, <<"t","o","m","o","r","r","o","w">>)
                  - HasToken(a, <<"t","o","m","o","r","r","o","w">>)
    [] OTHER -> RelevanceScore(b) - RelevanceScore(a)

\* The comparator with the relevance case on the rating alone.
CompareRelevanceByRating(a, b, sort) ==
  CASE sort = "distance" -> DistanceOrZero(a) - DistanceOrZero(b)
    [] sort = "rating" -> b.rating - a.rating
    [] sort = "availability" ->
         IF HasToken(a, <<"t","o","d","a","y">>) # HasToken(b, <<"t","o","d","a","y">>)
           THEN HasToken(b, <<"t","o","d","a","y">>) - HasToken(a, <<"t","o","d","a","y">>)
           ELSE HasToken(b, <<"t","o","m","o","r","r","o","w">>)
                  - HasToken(a, <<"t","o","m","o","r","r","o","w">>)
    [] OTHER -> b.rating - a.rating

\* The comparator's result for (a, b): negative when a sorts before b.
Compare(a, b, sort) ==
  CASE sort = "distance" -> DistanceOrZero(a) - DistanceOrZero(b)
    [] sort = "rating" -> b.rating - a.rating
    [] sort = "availability" ->
         IF HasToken(a, <<"t","o","d","a","y">>) # HasToken(b, <<"t","o","d","a","y">>)
           THEN HasToken(b, <<"t","o","d","a","y">>) - HasToken(a, <<"t","o","d","a","y">>)
           ELSE HasToken(b, <<"t","o","m","o","r","r","o","w">>)
                  - HasToken(a, <<"t","o","m","o","r","r","o","w">>)
    [] OTHER -> RelevanceScore(b) - RelevanceScore(a)

\* Insertion before the elements that compare equal: ties come out reversed.
RECURSIVE InsertBeforeEqual(_, _, _)
InsertBeforeEqual(x, s, sort) ==
  IF s = <<>> THEN <<x>>
  ELSE IF Compare(x, Head(s), sort) <= 0 THEN <<x>> \o s
  ELSE <<Head(s)>> \o InsertBeforeEqual(x, Tail(s), sort)

\* Stable insertion of x into the sorted list s: after every element that does
\* not sort after it.
RECURSIVE InsertSorted(_, _, _)
InsertSorted(x, s, sort) ==
  IF s = <<>> THEN <<x>>
  ELSE IF Compare(x, Head(s), sort) < 0 THEN <<x>> \o s
  ELSE <<Head(s)>> \o InsertSorted(x, Tail(s), sort)

RECURSIVE sortProviders(_, _)
sortProviders(list, sort) ==
  IF list = <<>> THEN <<>>
  ELSE InsertSorted(list[Len(list)], sortProviders(SubSeq(list, 1, Len(list) - 1), sort), sort)

(***************************************************************************)
(* MemStorage: the store after its fields are initialised.  Providers are  *)
(* put in only by createProvider, which the constructor's seeding calls    *)
(* once per seed record.                                                   *)
(***************************************************************************)
DefaultPage == 1

DefaultLimit == 10

SortKeys == {"relevance", "distance", "availability", "rating"}

SeedSpecialties ==
  <<"Primary Care", "Cardiology", "Dermatology", "Orthopedics",
    "Neurology", "Psychiatry", "Pediatrics", "Gynecology",
    "Ophthalmology", "Dentistry", "Physical Therapy", "Oncology",
    "Endocrinology", "Pulmonology", "Rheumatology", "Gastroenterology">>

SeedInsurancePlans ==
  <<"Aetna", "Blue Cross Blue Shield", "Cigna", "Humana",
    "Medicaid", "Medicare", "UnitedHealthcare", "Oscar",
    "Kaiser Permanente", "Anthem", "Delta Dental", "Cigna Dental">>

NoResult == [op |-> "none"]

Init ==
  /\ providers = <<>>
  /\ specialties = SeedSpecialties
  /\ insurancePlans = SeedInsurancePlans
  /\ currentProviderId = 1
  /\ currentSpecialtyId = 1
  /\ currentInsurancePlanId = 1
  /\ result = NoResult

\* A map that holds the last record set and nothing else.
MapSetFresh(map, id, rec) == <<rec>>

\* Map.prototype.set: a new key is added last, an existing key keeps its place.
MapSet(map, id, rec) ==
  IF \E i \in 1..Len(map) : map[i].id = id
    THEN [i \in 1..Len(map) |-> IF map[i].id = id THEN rec ELSE map[i]]
    ELSE Append(map, rec)

\* A lookup that is off by one: the record under the key after the one asked for.
MapGetOffByOne(map, id) ==
  IF \E i \in 1..Len(map) : map[i].id = id + 1
    THEN Some(map[CHOOSE i \in 1..Len(map) : map[i].id = id + 1])
    ELSE None

\* Map.prototype.get: the record under the key, or undefined.
MapGet(map, id) ==
  IF \E i \in 1..Len(map) : map[i].id = id
    THEN Some(map[CHOOSE i \in 1..Len(map) : map[i].id = id])
    ELSE None

\* { ...provider, id }
WithId(provider, id) == [k \in (DOMAIN provider) \cup {"id"} |->
                           IF k = "id" THEN id ELSE provider[k]]

Location == <<"N","e","w"," ","Y","o","r","k",","," ","N","Y">>

\* getProviders counting its pages from 0.
getProvidersPageFromZero(page, limit, sort) ==
  LET allProviders == providers
      sortedProviders == sortProviders(allProviders, sort)
      start == page * limit
      end == start + limit
      paginatedProviders == Slice(sortedProviders, start, end)
  IN [providers |-> paginatedProviders,
      total |-> Len(allProviders),
      location |-> Location]

\* MemStorage.getProviders
getProviders(page, limit, sort) ==
  LET allProviders == providers
      sortedProviders == sortProviders(allProviders, sort)
      start == (page - 1) * limit
      end == start + limit
      paginatedProviders == Slice(sortedProviders, start, end)
  IN [providers |-> paginatedProviders,
      total |-> Len(allProviders),
      location |-> Location]

getProvider(id) == MapGet(providers, id)

(***************************************************************************)
(* MemStorage.searchProviders: the filter stages in the order of the code, *)
(* each stage filtering the list the previous one left.                    *)
(***************************************************************************)
\* A string-valued field is truthy when it is there and not "".
Truthy(o) == Present(o) /\ Val(o) # <<>>

\* `${street}, ${city}, ${state} ${zipCode}`
FormatAddress(a) ==
  a.street \o <<",", " ">> \o a.city \o <<",", " ">> \o a.state \o <<" ">> \o a.zipCode

\* The text predicate comparing the fields as stored, without toLowerCase.
MatchesSearchQueryCaseSensitive(p, query) ==
  \/ Includes(p.name, query)
  \/ Includes(p.specialty, query)
  \/ /\ Present(p.officeAddress)
     /\ Includes(FormatAddress(Val(p.officeAddress)), query)
  \/ Includes(p.about, query)
  \/ /\ Present(p.insurances)
     /\ \E i \in 1..Len(Val(p.insurances)) : Includes(Val(p.insurances)[i], query)

MatchesSearchQuery(p, query) ==
  \/ Includes(ToLowerCase(p.name), query)
  \/ Includes(ToLowerCase(p.specialty), query)
  \/ /\ Present(p.officeAddress)
     /\ Includes(ToLowerCase(FormatAddress(Val(p.officeAddress))), query)
  \/ Includes(ToLowerCase(p.about), query)
  \/ /\ Present(p.insurances)
     /\ \E i \in 1..Len(Val(p.insurances)) :
          Includes(ToLowerCase(Val(p.insurances)[i]), query)

\* The text stage run for every query that is there, an empty query matching
\* no provider.
SearchQueryStageEmptyMatchesNothing(list, filter) ==
  IF Present(filter.searchQuery)
    THEN LET query == ToLowerCase(Val(filter.searchQuery))
             Keep(p) == query # <<>> /\ MatchesSearchQuery(p, query)
         IN SelectSeq(list, Keep)
    ELSE list

SearchQueryStage(list, filter) ==
  IF Truthy(filter.searchQuery)
    THEN LET query == ToLowerCase(Val(filter.searchQuery))
             Keep(p) == MatchesSearchQuery(p, query)
         IN SelectSeq(list, Keep)
    ELSE list

\* The specialty stage comparing the specialty as stored, without toLowerCase.
SpecialtyStageCaseSensitive(list, filter) ==
  IF Truthy(filter.specialty)
    THEN LET Keep(p) == p.specialty = Val(filter.specialty)
         IN SelectSeq(list, Keep)
    ELSE list

\* The specialty stage filtering the whole store instead of the list so far.
SpecialtyStageOfStore(list, filter) ==
  IF Truthy(filter.specialty)
    THEN LET Keep(p) == ToLowerCase(p.specialty) = ToLowerCase(Val(filter.specialty))
         IN SelectSeq(providers, Keep)
    ELSE list

SpecialtyStage(list, filter) ==
  IF Truthy(filter.specialty)
    THEN LET Keep(p) == ToLowerCase(p.specialty) = ToLowerCase(Val(filter.specialty))
         IN SelectSeq(list, Keep)
    ELSE list

\* The insurance stage letting through a provider that has no insurance list.
InsuranceStageKeepsNoList(list, filter) ==
  IF Truthy(filter.insurance)
    THEN LET Keep(p) ==
               \/ ~Present(p.insurances)
               \/ \E i \in 1..Len(Val(p.insurances)) :
                    ToLowerCase(Val(p.insurances)[i]) = ToLowerCase(Val(filter.insurance))
         IN SelectSeq(list, Keep)
    ELSE list

InsuranceStage(list, filter) ==
  IF Truthy(filter.insurance)
    THEN LET Keep(p) ==
               /\ Present(p.insurances)
               /\ \E i \in 1..Len(Val(p.insurances)) :
                    ToLowerCase(Val(p.insurances)[i]) = ToLowerCase(Val(filter.insurance))
         IN SelectSeq(list, Keep)
    ELSE list

\* p.nextAvailable && p.nextAvailable.toLowerCase().includes(token)
NextAvailableHas(p, token) ==
  Truthy(p.nextAvailable) /\ Includes(ToLowerCase(Val(p.nextAvailable)), token)

AvailableToday(p) == NextAvailableHas(p, <<"t","o","d","a","y">>)

AvailableThisWeek(p) ==
  \/ NextAvailableHas(p, <<"t","o","d","a","y">>)
  \/ NextAvailableHas(p, <<"t","o","m","o","r","r","o","w">>)
  \/ NextAvailableHas(p, <<"m","o","n","d","a","y">>)
  \/ NextAvailableHas(p, <<"t","u","e","s","d","a","y">>)
  \/ NextAvailableHas(p, <<"w","e","d","n","e","s","d","a","y">>)
  \/ NextAvailableHas(p, <<"t","h","u","r","s","d","a","y">>)
  \/ NextAvailableHas(p, <<"f","r","i","d","a","y">>)

AvailableWeekends(p) ==
  \/ NextAvailableHas(p, <<"s","a","t","u","r","d","a","y">>)
  \/ NextAvailableHas(p, <<"s","u","n","d","a","y">>)

\* The availability stage keeping a provider that satisfies any one set flag.
AvailabilityStageAnyFlag(list, filter) ==
  IF Present(filter.availability)
    THEN LET a == Val(filter.availability)
             Keep(p) ==
               \/ ~(a.today \/ a.thisWeek \/ a.weekends)
               \/ a.today /\ AvailableToday(p)
               \/ a.thisWeek /\ AvailableThisWeek(p)
               \/ a.weekends /\ AvailableWeekends(p)
         IN SelectSeq(list, Keep)
    ELSE list

AvailabilityStage(list, filter) ==
  IF Present(filter.availability)
    THEN LET a == Val(filter.availability)
             l1 == IF a.today THEN SelectSeq(list, AvailableToday) ELSE list
             l2 == IF a.thisWeek THEN SelectSeq(l1, AvailableThisWeek) ELSE l1
             l3 == IF a.weekends THEN SelectSeq(l2, AvailableWeekends) ELSE l2
         IN l3
    ELSE list

\* A nullable boolean column is truthy when it is there and true.
Flag(o) == Present(o) /\ Val(o)

IsAcceptingNewPatients(p) == Flag(p.acceptingNewPatients)

HasVirtualVisits(p) == Flag(p.hasVirtualVisits)

\* Spanish decided by the provider's isSpanishSpeaking column.
SpeaksSpanishByColumn(p) == Flag(p.isSpanishSpeaking)

SpeaksSpanish(p) ==
  /\ Present(p.languages)
  /\ \E i \in 1..Len(Val(p.languages)) :
       ToLowerCase(Val(p.languages)[i]) = <<"s","p","a","n","i","s","h">>

AdditionalStage(list, filter) ==
  IF Present(filter.additional)
    THEN LET a == Val(filter.additional)
             l1 == IF a.acceptingNewPatients THEN SelectSeq(list, IsAcceptingNewPatients) ELSE list
             l2 == IF a.virtualVisits THEN SelectSeq(l1, HasVirtualVisits) ELSE l1
             l3 == IF a.spanishSpeaking THEN SelectSeq(l2, SpeaksSpanish) ELSE l2
         IN l3
    ELSE list

\* The list called filteredProviders when the last stage is done.
FilteredProviders(list, filter) ==
  AdditionalStage(
    AvailabilityStage(
      InsuranceStage(
        SpecialtyStage(
          SearchQueryStage(list, filter), filter), filter), filter), filter)

\* `Area near ${filter.zipCode}` when a zip code is given.
\* The location templated from any zip code that is there, the empty one too.
SearchLocationOfAnyZip(filter) ==
  IF Present(filter.zipCode)
    THEN <<"A","r","e","a"," ","n","e","a","r"," ">> \o Val(filter.zipCode)
    ELSE Location

SearchLocation(filter) ==
  IF Truthy(filter.zipCode)
    THEN <<"A","r","e","a"," ","n","e","a","r"," ">> \o Val(filter.zipCode)
    ELSE Location

\* The columns of a provider that may hold null.
NullableColumns ==
  {"profileImage", "distance", "nextAvailable", "insurances", "isInNetwork",
   "hasVirtualVisits", "languages", "acceptingNewPatients", "isSpanishSpeaking"}

\* The reads of the older pipeline: p.insurances.some(...) and
\* p.languages.some(...) without the guard in front.
UnguardedReadsNoListGuard(filter) ==
  (IF Truthy(filter.searchQuery) THEN {"name", "specialty", "about", "insurances"} ELSE {})
  \cup (IF Truthy(filter.specialty) THEN {"specialty"} ELSE {})
  \cup (IF Truthy(filter.insurance) THEN {"insurances"} ELSE {})
  \cup (IF Present(filter.additional) /\ Val(filter.additional).spanishSpeaking
          THEN {"languages"} ELSE {})

\* The columns whose value the pipeline calls a method on with no guard in
\* front (p.name.toLowerCase(), p.specialty.toLowerCase(),
\* p.about.toLowerCase()) for the stages the filter switches on; the other
\* reads are guarded (p.insurances && ..., p.nextAvailable && ...,
\* a.nextAvailable?.toLowerCase(), a.distance || 0).
UnguardedReads(filter) ==
  (IF Truthy(filter.searchQuery) THEN {"name", "specialty", "about"} ELSE {})
  \cup (IF Truthy(filter.specialty) THEN {"specialty"} ELSE {})

\* A TypeError is raised when a method is called on a null column.
searchProvidersThrows(filter) ==
  \E i \in 1..Len(providers) : \E column \in UnguardedReads(filter) \cap NullableColumns :
    providers[i][column] = None

\* searchProviders with the total taken after the page is cut.
searchProvidersTotalOfPage(filter) ==
  LET page == IF Present(filter.page) THEN Val(filter.page) ELSE DefaultPage
      limit == IF Present(filter.limit) THEN Val(filter.limit) ELSE DefaultLimit
      sort == IF Present(filter.sort) THEN Val(filter.sort) ELSE "relevance"
      filteredProviders == FilteredProviders(providers, filter)
      sortedProviders == sortProviders(filteredProviders, sort)
      start == (page - 1) * limit
      end == start + limit
      paginatedProviders == Slice(sortedProviders, start, end)
  IN [providers |-> paginatedProviders,
      total |-> Len(paginatedProviders),
      location |-> SearchLocation(filter)]

\* searchProviders cutting the page out of the filtered list as stored,
\* without the sort.
searchProvidersUnsorted(filter) ==
  LET page == IF Present(filter.page) THEN Val(filter.page) ELSE DefaultPage
      limit == IF Present(filter.limit) THEN Val(filter.limit) ELSE DefaultLimit
      filteredProviders == FilteredProviders(providers, filter)
      start == (page - 1) * limit
      end == start + limit
      paginatedProviders == Slice(filteredProviders, start, end)
  IN [providers |-> paginatedProviders,
      total |-> Len(filteredProviders),
      location |-> SearchLocation(filter)]

\* MemStorage.searchProviders
searchProviders(filter) ==
  LET page == IF Present(filter.page) THEN Val(filter.page) ELSE DefaultPage
      limit == IF Present(filter.limit) THEN Val(filter.limit) ELSE DefaultLimit
      sort == IF Present(filter.sort) THEN Val(filter.sort) ELSE "relevance"
      filteredProviders == FilteredProviders(providers, filter)
      sortedProviders == sortProviders(filteredProviders, sort)
      start == (page - 1) * limit
      end == start + limit
      paginatedProviders == Slice(sortedProviders, start, end)
  IN [providers |-> paginatedProviders,
      total |-> Len(filteredProviders),
      location |-> SearchLocation(filter)]

(***************************************************************************)
(* shared/schema.ts, providerFilterSchema.safeParse: every field optional, *)
(* sort one of the four keys, defaults for page, limit, sort and the       *)
(* flags.  A body is a record of optional fields; a flag of a body is an   *)
(* optional boolean.                                                       *)
(***************************************************************************)
FlagDefault(o) == IF Present(o) THEN Val(o) ELSE FALSE

ParseAvailability(o) ==
  IF Present(o)
    THEN Some([today |-> FlagDefault(Val(o).today),
               thisWeek |-> FlagDefault(Val(o).thisWeek),
               weekends |-> FlagDefault(Val(o).weekends)])
    ELSE None

ParseAdditional(o) ==
  IF Present(o)
    THEN Some([acceptingNewPatients |-> FlagDefault(Val(o).acceptingNewPatients),
               virtualVisits |-> FlagDefault(Val(o).virtualVisits),
               spanishSpeaking |-> FlagDefault(Val(o).spanishSpeaking)])
    ELSE None

\* A schema that accepts every body.
ParseSucceedsAlways(body) == TRUE

\* filterResult.error.errors: the paths of the fields that fail the schema.
ParseErrors(body) ==
  IF Present(body.sort) /\ Val(body.sort) \notin SortKeys THEN <<"sort">> ELSE <<>>

\* filterResult.success
ParseSucceeds(body) == Present(body.sort) => Val(body.sort) \in SortKeys

ParseFilter(body) ==
  [searchQuery |-> body.searchQuery,
   specialty |-> body.specialty,
   zipCode |-> body.zipCode,
   insurance |-> body.insurance,
   availability |-> ParseAvailability(body.availability),
   additional |-> ParseAdditional(body.additional),
   page |-> IF Present(body.page) THEN body.page ELSE Some(DefaultPage),
   limit |-> IF Present(body.limit) THEN body.limit ELSE Some(DefaultLimit),
   sort |-> IF Present(body.sort) THEN body.sort ELSE Some("relevance")]

(***************************************************************************)
(* The operations.  result is the value of the call being answered; the    *)
(* calls are taken up one at a time: a call starts when the one before it   *)
(* has returned (Return).                                                   *)
(***************************************************************************)
Idle == result = NoResult

\* createProvider without the increment of the id counter.
CreateProviderSameId(provider) ==
  /\ result = [op |-> "none"]
  /\ Len(providers) < MaxProviders
  /\ LET id == currentProviderId
         newProvider == WithId(provider, id)
     IN /\ currentProviderId' = currentProviderId
        /\ providers' = MapSet(providers, id, newProvider)
        /\ result' = [op |-> "createProvider", provider |-> newProvider]
  /\ UNCHANGED refVars

\* MemStorage.createProvider
CreateProvider(provider) ==
  /\ Idle
  /\ Len(providers) < MaxProviders
  /\ LET id == currentProviderId
         newProvider == WithId(provider, id)
     IN /\ currentProviderId' = currentProviderId + 1
        /\ providers' = MapSet(providers, id, newProvider)
        /\ result' = [op |-> "createProvider", provider |-> newProvider]
  /\ UNCHANGED refVars

\* GET /api/providers with a sort that works on the stored list itself.
ListProvidersSortInPlace(pageQ, limitQ, sortQ) ==
  /\ Idle
  /\ LET page == IF Present(pageQ) /\ Val(pageQ) # 0 THEN Val(pageQ) ELSE DefaultPage
         limit == IF Present(limitQ) /\ Val(limitQ) # 0 THEN Val(limitQ) ELSE DefaultLimit
         sort == IF Present(sortQ) /\ Val(sortQ) # "" THEN Val(sortQ) ELSE "relevance"
     IN /\ result' = [op |-> "getProviders", status |-> 200,
                      page |-> page, limit |-> limit, sort |-> sort,
                      body |-> getProviders(page, limit, sort)]
        /\ providers' = sortProviders(providers, sort)
  /\ UNCHANGED <<currentProviderId, refVars>>

\* GET /api/providers: page, limit and sort as parsed from the query string
\* (None: the parameter is missing or is not a number).
ListProviders(pageQ, limitQ, sortQ) ==
  /\ Idle
  /\ LET page == IF Present(pageQ) /\ Val(pageQ) # 0 THEN Val(pageQ) ELSE DefaultPage
         limit == IF Present(limitQ) /\ Val(limitQ) # 0 THEN Val(limitQ) ELSE DefaultLimit
         sort == IF Present(sortQ) /\ Val(sortQ) # "" THEN Val(sortQ) ELSE "relevance"
     IN result' = [op |-> "getProviders", status |-> 200,
                   page |-> page, limit |-> limit, sort |-> sort,
                   body |-> getProviders(page, limit, sort)]
  /\ UNCHANGED <<storeVars, refVars>>

\* GET /api/providers/:id (idQ is None when the path segment is not a number).
GetProvider(idQ) ==
  /\ Idle
  /\ result' =
       IF ~Present(idQ) THEN [op |-> "getProvider", status |-> 400]
       ELSE IF ~Present(getProvider(Val(idQ)))
         THEN [op |-> "getProvider", status |-> 404, id |-> Val(idQ)]
       ELSE [op |-> "getProvider", status |-> 200, id |-> Val(idQ),
             body |-> Val(getProvider(Val(idQ)))]
  /\ UNCHANGED <<storeVars, refVars>>

\* POST /api/providers/filter
FilterProviders(body) ==
  /\ Idle
  /\ result' =
       IF ~ParseSucceeds(body)
         THEN [op |-> "searchProviders", status |-> 400,
               request |-> body, errors |-> ParseErrors(body)]
       ELSE IF searchProvidersThrows(ParseFilter(body))
         THEN [op |-> "searchProviders", status |-> 500]
         ELSE [op |-> "searchProviders", status |-> 200,
               filter |-> ParseFilter(body),
               body |-> searchProviders(ParseFilter(body))]
  /\ UNCHANGED <<storeVars, refVars>>

\* The value is handed to the caller (res.json for a handler).
Return ==
  /\ ~Idle
  /\ result' = NoResult
  /\ UNCHANGED <<storeVars, refVars>>

\* A Set after add(value): a value it holds already is not added again, a new
\* one is added last.
SetAddAlways(set, value) == Append(set, value)

\* Set.prototype.add
SetAdd(set, value) ==
  IF \E i \in 1..Len(set) : set[i] = value THEN set ELSE Append(set, value)

\* MemStorage.getSpecialties
GetSpecialties ==
  /\ Idle
  /\ result' = [op |-> "getSpecialties", status |-> 200, body |-> specialties]
  /\ UNCHANGED <<storeVars, refVars>>

\* MemStorage.createSpecialty
CreateSpecialty(specialty) ==
  /\ Idle
  /\ currentSpecialtyId <= MaxRefCreates
  /\ LET id == currentSpecialtyId
     IN /\ currentSpecialtyId' = currentSpecialtyId + 1
        /\ specialties' = SetAdd(specialties, specialty.name)
        /\ result' = [op |-> "createSpecialty",
                      specialty |-> [id |-> id, name |-> specialty.name]]
  /\ UNCHANGED <<storeVars, insurancePlans, currentInsurancePlanId>>

\* MemStorage.getInsurancePlans
GetInsurancePlans ==
  /\ Idle
  /\ result' = [op |-> "getInsurancePlans", status |-> 200, body |-> insurancePlans]
  /\ UNCHANGED <<storeVars, refVars>>

\* MemStorage.createInsurancePlan
CreateInsurancePlan(plan) ==
  /\ Idle
  /\ currentInsurancePlanId <= MaxRefCreates
  /\ LET id == currentInsurancePlanId
     IN /\ currentInsurancePlanId' = currentInsurancePlanId + 1
        /\ insurancePlans' = SetAdd(insurancePlans, plan.name)
        /\ result' = [op |-> "createInsurancePlan",
                      plan |-> [id |-> id, name |-> plan.name]]
  /\ UNCHANGED <<storeVars, specialties, currentSpecialtyId>>

\* The comparator of the relevance order on a pair of providers: the two
\* scores and their difference.
RelevanceScores ==
  /\ result.op = "scoreInputs"
  /\ result' = [op |-> "relevanceScores", a |-> result.a, b |-> result.b,
                scoreA |-> RelevanceScore(result.a),
                scoreB |-> RelevanceScore(result.b),
                compare |-> Compare(result.a, result.b, "relevance")]
  /\ UNCHANGED <<storeVars, refVars>>

(***************************************************************************)
(* The inputs of the model.                                                *)
(***************************************************************************)
OptInts(lo, hi) == {None} \cup {Some(n) : n \in lo..hi}

PageInputs == OptInts(-1, MaxPage)

LimitInputs == OptInts(-1, MaxLimit)

SortInputs == {None, Some("")} \cup {Some(k) : k \in SortKeys} \cup {Some("newest")}

QueryInputs ==
  {None, Some(<<>>), Some(<<"c","a","r","d","i","o">>),
   Some(<<"N","y"," ","1">>), Some(<<"a","E","T">>)}

SpecialtyInputs ==
  {None, Some(<<>>), Some(<<"C","a","r","d","i","o","l","o","g","y">>),
   Some(<<"D","E","R","M","A","T","O","L","O","G","Y">>)}

InsuranceInputs == {None, Some(<<>>), Some(<<"a","e","t","n","a">>)}

ZipInputs == {None, Some(<<>>), Some(<<"1","0">>)}

AvailabilityInputs ==
  {None} \cup {Some([today |-> a, thisWeek |-> b, weekends |-> c]) :
                 a \in {None, Some(TRUE)}, b \in {Some(FALSE), Some(TRUE)},
                 c \in {None, Some(TRUE)}}

AdditionalInputs ==
  {None} \cup {Some([acceptingNewPatients |-> a, virtualVisits |-> b,
                     spanishSpeaking |-> c]) :
                 a \in {None, Some(TRUE)}, b \in {Some(FALSE), Some(TRUE)},
                 c \in {None, Some(TRUE)}}

EmptyBody ==
  [searchQuery |-> None, specialty |-> None, zipCode |-> None, insurance |-> None,
   availability |-> None, additional |-> None,
   page |-> None, limit |-> None, sort |-> None]

\* Bodies that set the text, specialty and insurance fields.
TextBodies ==
  {[EmptyBody EXCEPT !.searchQuery = q, !.specialty = s, !.insurance = i] :
     q \in QueryInputs, s \in SpecialtyInputs, i \in InsuranceInputs}

\* Bodies that set the availability and additional flags.
FlagBodies ==
  {[EmptyBody EXCEPT !.availability = a, !.additional = d] :
     a \in AvailabilityInputs, d \in AdditionalInputs}

\* Bodies that set one predicate of every kind at once.
MixedBodies ==
  {[EmptyBody EXCEPT !.searchQuery = q, !.specialty = s, !.insurance = i,
                     !.availability = a, !.additional = d] :
     q \in {None, Some(<<"c","a","r","d","i","o">>)},
     s \in {None, Some(<<"C","a","r","d","i","o","l","o","g","y">>)},
     i \in {None, Some(<<"a","e","t","n","a">>)},
     a \in {None, Some([today |-> None, thisWeek |-> Some(TRUE), weekends |-> None])},
     d \in {None, Some([acceptingNewPatients |-> Some(TRUE), virtualVisits |-> Some(FALSE),
                        spanishSpeaking |-> Some(TRUE)])}}

\* Bodies that set the paging, the sort and the zip code.
PagingBodies ==
  {[EmptyBody EXCEPT !.page = pg, !.limit = lm, !.sort = so] :
     pg \in PageInputs, lm \in LimitInputs, so \in SortInputs}
  \cup
  {[EmptyBody EXCEPT !.page = pg, !.limit = lm, !.zipCode = z,
                     !.specialty = Some(<<"C","a","r","d","i","o","l","o","g","y">>)] :
     pg \in PageInputs, lm \in LimitInputs, z \in ZipInputs}

FilterBodies == TextBodies \cup FlagBodies \cup MixedBodies \cup PagingBodies

IdInputs == OptInts(0, MaxProviders + 1)

Next ==
  \/ \E k \in 1..Len(ProviderInputs) : CreateProvider(ProviderInputs[k])
  \/ \E pageQ \in PageInputs, limitQ \in LimitInputs, sortQ \in SortInputs :
       ListProviders(pageQ, limitQ, sortQ)
  \/ \E idQ \in IdInputs : GetProvider(idQ)
  \/ \E body \in FilterBodies : FilterProviders(body)
  \/ GetSpecialties
  \/ GetInsurancePlans
  \/ Return

Spec == Init /\ [][Next]_vars

\* Names for the reference lists: seeded ones, one that differs from a seeded
\* one by case only, and new ones.
SpecialtyNameInputs == {"Cardiology", "cardiology", "Urology"}

InsurancePlanNameInputs == {"Aetna", "Medicare", "Tricare"}

\* The reference lists by themselves.
NextRef ==
  \/ \E name \in SpecialtyNameInputs : CreateSpecialty([name |-> name])
  \/ GetSpecialties
  \/ \E name \in InsurancePlanNameInputs : CreateInsurancePlan([name |-> name])
  \/ GetInsurancePlans
  \/ Return

SpecRef == Init /\ [][NextRef]_vars

\* The relevance score by itself, on pairs of rating (in tenths) and review
\* count.
ScoreInputs ==
  {[rating |-> 10 * r, reviewCount |-> n] :
     r \in (0 - MaxScoreRating)..MaxScoreRating, n \in 0..MaxReviewCount}

InitScore ==
  /\ providers = <<>>
  /\ specialties = SeedSpecialties
  /\ insurancePlans = SeedInsurancePlans
  /\ currentProviderId = 1
  /\ currentSpecialtyId = 1
  /\ currentInsurancePlanId = 1
  /\ result \in {[op |-> "scoreInputs", a |-> a, b |-> b] : a, b \in ScoreInputs}

NextScore == RelevanceScores

SpecScore == InitScore /\ [][NextScore]_vars

(***************************************************************************)
(* Concurrent requests.  The storage methods are async functions without   *)
(* an await in their body, so a call runs from its first to its last       *)
(* statement in the task that makes it; the caller's `await` hands the     *)
(* value over in a later task.  result holds the answers that are computed *)
(* and not handed over yet, and calls of other requests run in between.    *)
(***************************************************************************)
IsEventLoop == result.op = "eventLoop"

Awaiting == result.awaiting

AwaitingCreations == {r \in Awaiting : r.op = "createProvider"}

CanCall == IsEventLoop /\ Cardinality(Awaiting) < MaxInFlight

\* createProvider taking the id that the counter had before the creations
\* still in flight wrote it.
CallCreateProviderStaleCounter(provider) ==
  /\ CanCall
  /\ Len(providers) < MaxProviders
  /\ LET id == currentProviderId - Cardinality(AwaitingCreations)
         newProvider == WithId(provider, id)
     IN /\ currentProviderId' = id + 1
        /\ providers' = MapSet(providers, id, newProvider)
        /\ result' = [result EXCEPT !.awaiting =
                        @ \cup {[op |-> "createProvider", provider |-> newProvider]}]
  /\ UNCHANGED refVars

\* MemStorage.createProvider, called while other answers are in flight.
CallCreateProvider(provider) ==
  /\ CanCall
  /\ Len(providers) < MaxProviders
  /\ LET id == currentProviderId
         newProvider == WithId(provider, id)
     IN /\ currentProviderId' = currentProviderId + 1
        /\ providers' = MapSet(providers, id, newProvider)
        /\ result' = [result EXCEPT !.awaiting =
                        @ \cup {[op |-> "createProvider", provider |-> newProvider]}]
  /\ UNCHANGED refVars

\* GET /api/providers?page=1&limit=10&sort=..., up to its await.
CallGetProviders(sort) ==
  /\ CanCall
  /\ result' = [result EXCEPT !.awaiting =
                  @ \cup {[op |-> "getProviders", sort |-> sort,
                           body |-> getProviders(DefaultPage, DefaultLimit, sort)]}]
  /\ UNCHANGED <<storeVars, refVars>>

\* POST /api/providers/filter with a body that passes the schema, up to its
\* await.
CallSearchProviders(body) ==
  /\ CanCall
  /\ ParseSucceeds(body)
  /\ result' = [result EXCEPT !.awaiting =
                  @ \cup {[op |-> "searchProviders", filter |-> ParseFilter(body),
                           body |-> searchProviders(ParseFilter(body))]}]
  /\ UNCHANGED <<storeVars, refVars>>

\* An answer is handed to its caller.
Respond ==
  /\ IsEventLoop
  /\ \E r \in Awaiting : result' = [result EXCEPT !.awaiting = @ \ {r}]
  /\ UNCHANGED <<storeVars, refVars>>

ConcurrentBodies ==
  {EmptyBody, [EmptyBody EXCEPT !.specialty = Some(<<"C","a","r","d","i","o","l","o","g","y">>)]}

InitConc ==
  /\ providers = <<>>
  /\ specialties = SeedSpecialties
  /\ insurancePlans = SeedInsurancePlans
  /\ currentProviderId = 1
  /\ currentSpecialtyId = 1
  /\ currentInsurancePlanId = 1
  /\ result = [op |-> "eventLoop", awaiting |-> {}]

NextConc ==
  \/ \E k \in 1..Len(ProviderInputs) : CallCreateProvider(ProviderInputs[k])
  \/ \E sort \in {"relevance", "rating"} : CallGetProviders(sort)
  \/ \E body \in ConcurrentBodies : CallSearchProviders(body)
  \/ Respond

SpecConc == InitConc /\ [][NextConc]_vars

(***************************************************************************)
(* The results page of the client (Home.tsx with FilterSidebar.tsx and     *)
(* Pagination.tsx) in front of the server with its seeded store.  result   *)
(* holds the state of the page: the sidebar's filters, the filters applied *)
(* (None until the first Apply or Clear), the current page, the sort       *)
(* option and the data of the query (None while it is loading).            *)
(***************************************************************************)
\* The constructor stores the seed records one by one through createProvider.
SeedCount == 23

SeededStore ==
  [i \in 1..SeedCount |-> WithId(ProviderInputs[((i - 1) % Len(ProviderInputs)) + 1], i)]

\* limit=10 of the list request, and the 10 of Math.ceil(data.total / 10).
ClientLimit == 10

ClientPageSize == 10

\* '...' in the list of page numbers.
Ellipsis == 0

InitialFilterState ==
  [specialty |-> <<>>, zipCode |-> <<>>, insurance |-> <<>>,
   availability |-> [today |-> FALSE, thisWeek |-> FALSE, weekends |-> FALSE],
   additional |-> [acceptingNewPatients |-> FALSE, virtualVisits |-> FALSE,
                   spanishSpeaking |-> FALSE]]

\* The items of the two dropdowns: "all" and names the server lists (no seeded
\* provider has the specialty Physical Therapy).
SpecialtyOptions ==
  {<<"a","l","l">>, <<"C","a","r","d","i","o","l","o","g","y">>,
   <<"P","h","y","s","i","c","a","l"," ","T","h","e","r","a","p","y">>}

InsuranceOptions == {<<"a","l","l">>, <<"A","e","t","n","a">>}

SortOptions == {"relevance", "distance", "availability", "rating"}

IsHome == result.op = "home"

\* { ...filters, page: currentPage, sort: sortOption }
FilterRequestBody(filters, page, sort) ==
  [searchQuery |-> None,
   specialty |-> Some(filters.specialty),
   zipCode |-> Some(filters.zipCode),
   insurance |-> Some(filters.insurance),
   availability |-> Some([today |-> Some(filters.availability.today),
                          thisWeek |-> Some(filters.availability.thisWeek),
                          weekends |-> Some(filters.availability.weekends)]),
   additional |-> Some([acceptingNewPatients |-> Some(filters.additional.acceptingNewPatients),
                        virtualVisits |-> Some(filters.additional.virtualVisits),
                        spanishSpeaking |-> Some(filters.additional.spanishSpeaking)]),
   page |-> Some(page), limit |-> None, sort |-> Some(sort)]

\* queryFn and the route that answers it: the data, or None for an error.
QueryResponse(filters, page, sort) ==
  IF Present(filters)
    THEN LET body == FilterRequestBody(Val(filters), page, sort)
         IN IF ParseSucceeds(body) /\ ~searchProvidersThrows(ParseFilter(body))
              THEN Some(searchProviders(ParseFilter(body)))
              ELSE None
    ELSE Some(getProviders(page, ClientLimit, sort))

\* The page count rounded down.
TotalPagesRoundedDown(data) ==
  IF Present(data) /\ Val(data).total # 0
    THEN Val(data).total \div ClientPageSize
    ELSE 1

\* data?.total ? Math.ceil(data.total / 10) : 1
TotalPages(data) ==
  IF Present(data) /\ Val(data).total # 0
    THEN (Val(data).total + ClientPageSize - 1) \div ClientPageSize
    ELSE 1

\* Pagination.getPageNumbers
GetPageNumbers(currentPage, totalPages) ==
  LET rangeStart == IF currentPage - 1 > 2 THEN currentPage - 1 ELSE 2
      rangeEnd == IF totalPages - 1 < currentPage + 1 THEN totalPages - 1 ELSE currentPage + 1
      range == IF rangeEnd >= rangeStart
                 THEN [i \in 1..(rangeEnd - rangeStart + 1) |-> rangeStart + i - 1]
                 ELSE <<>>
  IN <<1>>
     \o (IF rangeStart > 2 THEN <<Ellipsis>> ELSE <<>>)
     \o range
     \o (IF rangeEnd < totalPages - 1 THEN <<Ellipsis>> ELSE <<>>)
     \o (IF totalPages > 1 THEN <<totalPages>> ELSE <<>>)

\* {data && data.total > 0 && <Pagination .../>}
PaginationShown == Present(result.data) /\ Val(result.data).total > 0

\* updateFilter("specialty", value)
UpdateSpecialty(value) ==
  /\ IsHome
  /\ result' = [result EXCEPT !.sidebar.specialty = value]
  /\ UNCHANGED <<storeVars, refVars>>

\* updateFilter("insurance", value)
UpdateInsurance(value) ==
  /\ IsHome
  /\ result' = [result EXCEPT !.sidebar.insurance = value]
  /\ UNCHANGED <<storeVars, refVars>>

\* updateAvailabilityFilter("today", checked === true)
UpdateToday(checked) ==
  /\ IsHome
  /\ result' = [result EXCEPT !.sidebar.availability.today = checked]
  /\ UNCHANGED <<storeVars, refVars>>

\* handleApplyFilters -> handleFilterChange
HandleApplyFilters ==
  /\ IsHome
  /\ result' = [result EXCEPT !.filters = Some(result.sidebar),
                               !.currentPage = 1, !.data = None]
  /\ UNCHANGED <<storeVars, refVars>>

\* handleClearFilters -> handleFilterChange
HandleClearFilters ==
  /\ IsHome
  /\ result' = [result EXCEPT !.sidebar = InitialFilterState,
                               !.filters = Some(InitialFilterState),
                               !.currentPage = 1, !.data = None]
  /\ UNCHANGED <<storeVars, refVars>>

\* The sort Select's onValueChange
ChangeSort(value) ==
  /\ IsHome
  /\ result' = [result EXCEPT !.sortOption = value, !.currentPage = 1, !.data = None]
  /\ UNCHANGED <<storeVars, refVars>>

\* The Previous button: disabled={currentPage === 1}
ClickPrevious ==
  /\ IsHome
  /\ PaginationShown
  /\ result.currentPage # 1
  /\ result' = [result EXCEPT !.currentPage = result.currentPage - 1, !.data = None]
  /\ UNCHANGED <<storeVars, refVars>>

\* A Next button that is never disabled.
ClickNextNeverDisabled ==
  /\ result.op = "home"
  /\ PaginationShown
  /\ result' = [result EXCEPT !.currentPage = result.currentPage + 1, !.data = None]
  /\ UNCHANGED <<storeVars, refVars>>

\* The Next button: disabled={currentPage === totalPages}
ClickNext ==
  /\ IsHome
  /\ PaginationShown
  /\ result.currentPage # TotalPages(result.data)
  /\ result' = [result EXCEPT !.currentPage = result.currentPage + 1, !.data = None]
  /\ UNCHANGED <<storeVars, refVars>>

\* A page number button
ClickPage(index) ==
  /\ IsHome
  /\ PaginationShown
  /\ LET pageNumbers == GetPageNumbers(result.currentPage, TotalPages(result.data))
     IN /\ index \in 1..Len(pageNumbers)
        /\ pageNumbers[index] # Ellipsis
        /\ pageNumbers[index] # result.currentPage
        /\ result' = [result EXCEPT !.currentPage = pageNumbers[index], !.data = None]
  /\ UNCHANGED <<storeVars, refVars>>

\* useQuery: the query of the current key is answered.
QueryFn ==
  /\ IsHome
  /\ ~Present(result.data)
  /\ Present(QueryResponse(result.filters, result.currentPage, result.sortOption))
  /\ result' = [result EXCEPT !.data =
                  QueryResponse(result.filters, result.currentPage, result.sortOption)]
  /\ UNCHANGED <<storeVars, refVars>>

InitClient ==
  /\ providers = SeededStore
  /\ specialties = SeedSpecialties
  /\ insurancePlans = SeedInsurancePlans
  /\ currentProviderId = SeedCount + 1
  /\ currentSpecialtyId = 1
  /\ currentInsurancePlanId = 1
  /\ result = [op |-> "home", sidebar |-> InitialFilterState, filters |-> None,
               currentPage |-> 1, sortOption |-> "relevance", data |-> None]

\* The page buttons there can be: 1, an ellipsis, three around the current page,
\* an ellipsis, the last.
PageButtonIndexes == 1..7

NextClient ==
  \/ \E value \in SpecialtyOptions : UpdateSpecialty(value)
  \/ \E value \in InsuranceOptions : UpdateInsurance(value)
  \/ \E checked \in BOOLEAN : UpdateToday(checked)
  \/ HandleApplyFilters
  \/ HandleClearFilters
  \/ \E value \in SortOptions : ChangeSort(value)
  \/ ClickPrevious
  \/ ClickNext
  \/ \E index \in PageButtonIndexes : ClickPage(index)
  \/ QueryFn

SpecClient == InitClient /\ [][NextClient]_vars

(***************************************************************************)
(* What the claims say, stated apart from the operators of the code:       *)
(* comparison ignoring letter case is a relation between characters, and a *)
(* filtered set is the set of stored providers that pass every predicate.  *)
(***************************************************************************)
CasePairs ==
  {<<"A","a">>, <<"B","b">>, <<"C","c">>, <<"D","d">>, <<"E","e">>, <<"F","f">>,
   <<"G","g">>, <<"H","h">>, <<"I","i">>, <<"J","j">>, <<"K","k">>, <<"L","l">>,
   <<"M","m">>, <<"N","n">>, <<"O","o">>, <<"P","p">>, <<"Q","q">>, <<"R","r">>,
   <<"S","s">>, <<"T","t">>, <<"U","u">>, <<"V","v">>, <<"W","w">>, <<"X","x">>,
   <<"Y","y">>, <<"Z","z">>}

SameLetter(c, d) == c = d \/ <<c, d>> \in CasePairs \/ <<d, c>> \in CasePairs

EqualIgnoringCase(s, t) ==
  Len(s) = Len(t) /\ \A i \in 1..Len(s) : SameLetter(s[i], t[i])

ContainsIgnoringCase(s, q) ==
  \E off \in 0..(Len(s) - Len(q)) : \A j \in 1..Len(q) : SameLetter(s[off + j], q[j])

Ids(list) == {list[i].id : i \in 1..Len(list)}

Stored == {providers[i] : i \in 1..Len(providers)}

IsGetProviders == result.op = "getProviders"

IsSearch == result.op = "searchProviders" /\ result.status = 200

\* The elements at the 1-based positions (page-1)*limit+1 .. page*limit of list,
\* as far as the list has them.
PositionsOfPage(list, page, limit) ==
  LET lo == (page - 1) * limit + 1
      hi == page * limit
  IN SubSeq(list, IF lo < 1 THEN 1 ELSE lo, IF hi > Len(list) THEN Len(list) ELSE hi)

(***************************************************************************)
(* C1: for any page and limit passed to getProviders, the returned list    *)
(* has at most limit items and total is the number of stored providers.    *)
(* The list endpoint hands a negative limit on unchecked.                  *)
(***************************************************************************)
C1_AtMostLimitItems ==
  IsGetProviders =>
    /\ Len(result.body.providers) <= result.limit
    /\ result.body.total = Len(providers)

(***************************************************************************)
(* C2: getProviders returns exactly the elements at the positions          *)
(* (page-1)*limit+1 .. page*limit of the whole list sorted by sort, cut at *)
(* the end of the list, and total is the size of the store.                *)
(***************************************************************************)
C2_PageIsPositionsOfSorted ==
  IsGetProviders =>
    /\ result.body.providers =
         PositionsOfPage(sortProviders(providers, result.sort), result.page, result.limit)
    /\ result.body.total = Len(providers)

\* The same two statements for a page >= 1 and a limit >= 1 only.
PagingOfValidRequest ==
  (IsGetProviders /\ result.page >= 1 /\ result.limit >= 1) =>
    /\ Len(result.body.providers) <= result.limit
    /\ result.body.total = Len(providers)
    /\ result.body.providers =
         PositionsOfPage(sortProviders(providers, result.sort), result.page, result.limit)

(***************************************************************************)
(* The predicates a filter requests, one provider at a time.               *)
(***************************************************************************)
TextOf(p) ==
  <<p.name, p.specialty, p.about>>
  \o (IF Present(p.officeAddress)
        THEN <<Val(p.officeAddress).street \o <<",", " ">> \o Val(p.officeAddress).city
                 \o <<",", " ">> \o Val(p.officeAddress).state \o <<" ">>
                 \o Val(p.officeAddress).zipCode>>
        ELSE <<>>)
  \o (IF Present(p.insurances) THEN Val(p.insurances) ELSE <<>>)

PassesQuery(p, f) ==
  Truthy(f.searchQuery) =>
    \E i \in 1..Len(TextOf(p)) : ContainsIgnoringCase(TextOf(p)[i], Val(f.searchQuery))

PassesSpecialty(p, f) ==
  Truthy(f.specialty) => EqualIgnoringCase(p.specialty, Val(f.specialty))

PassesInsurance(p, f) ==
  Truthy(f.insurance) =>
    /\ Present(p.insurances)
    /\ \E i \in 1..Len(Val(p.insurances)) :
         EqualIgnoringCase(Val(p.insurances)[i], Val(f.insurance))

SlotHas(p, word) ==
  Present(p.nextAvailable) /\ ContainsIgnoringCase(Val(p.nextAvailable), word)

Weekdays ==
  {<<"m","o","n","d","a","y">>, <<"t","u","e","s","d","a","y">>,
   <<"w","e","d","n","e","s","d","a","y">>, <<"t","h","u","r","s","d","a","y">>,
   <<"f","r","i","d","a","y">>}

PassesAvailability(p, f) ==
  Present(f.availability) =>
    /\ Val(f.availability).today => SlotHas(p, <<"t","o","d","a","y">>)
    /\ Val(f.availability).thisWeek =>
         \/ SlotHas(p, <<"t","o","d","a","y">>)
         \/ SlotHas(p, <<"t","o","m","o","r","r","o","w">>)
         \/ \E w \in Weekdays : SlotHas(p, w)
    /\ Val(f.availability).weekends =>
         \/ SlotHas(p, <<"s","a","t","u","r","d","a","y">>)
         \/ SlotHas(p, <<"s","u","n","d","a","y">>)

PassesAdditional(p, f) ==
  Present(f.additional) =>
    /\ Val(f.additional).acceptingNewPatients => p.acceptingNewPatients = Some(TRUE)
    /\ Val(f.additional).virtualVisits => p.hasVirtualVisits = Some(TRUE)
    /\ Val(f.additional).spanishSpeaking =>
         /\ Present(p.languages)
         /\ \E i \in 1..Len(Val(p.languages)) :
              EqualIgnoringCase(Val(p.languages)[i], <<"s","p","a","n","i","s","h">>)

PassesAll(p, f) ==
  /\ PassesQuery(p, f)
  /\ PassesSpecialty(p, f)
  /\ PassesInsurance(p, f)
  /\ PassesAvailability(p, f)
  /\ PassesAdditional(p, f)

\* The stored providers that pass every predicate the filter requests.
Matching(f) == {p \in Stored : PassesAll(p, f)}

\* list is a sub-list of the stored providers in set: its elements are in
\* the set, none twice.
IsSubListOf(list, set) ==
  /\ \A i \in 1..Len(list) : list[i] \in set
  /\ \A i, j \in 1..Len(list) : i # j => list[i].id # list[j].id

(***************************************************************************)
(* C3: the total of searchProviders is the number of stored providers that *)
(* pass all requested predicates, whatever the page, limit and sort, and   *)
(* the returned page is a sub-list of those providers.                     *)
(***************************************************************************)
C3_TotalIsFilteredCount ==
  IsSearch =>
    /\ result.body.total = Cardinality(Matching(result.filter))
    /\ IsSubListOf(result.body.providers, Matching(result.filter))

\* A search by specialty that keeps one of two stored providers and is asked
\* for the page after it: the page is empty and the total is still 1.
C3_Witness ==
  /\ IsSearch
  /\ Truthy(result.filter.specialty)
  /\ Len(providers) = 2
  /\ result.body.total = 1
  /\ result.filter.page = Some(2)
  /\ result.filter.limit = Some(1)
  /\ result.body.providers = <<>>

(***************************************************************************)
(* C4: the predicates of a filter combine by intersection: the filtered    *)
(* list holds exactly the stored providers that pass every requested       *)
(* predicate, taking a predicate away never loses a provider, and applying *)
(* the stages in the opposite order gives the same list.                   *)
(***************************************************************************)
\* The filters that request one predicate less than f.
Weakenings(f) ==
  {[f EXCEPT !.searchQuery = None], [f EXCEPT !.specialty = None],
   [f EXCEPT !.insurance = None]}
  \cup (IF Present(f.availability)
          THEN {[f EXCEPT !.availability = Some([Val(f.availability) EXCEPT ![k] = FALSE])] :
                  k \in {"today", "thisWeek", "weekends"}}
          ELSE {})
  \cup (IF Present(f.additional)
          THEN {[f EXCEPT !.additional = Some([Val(f.additional) EXCEPT ![k] = FALSE])] :
                  k \in {"acceptingNewPatients", "virtualVisits", "spanishSpeaking"}}
          ELSE {})

StagesInReverse(list, f) ==
  SearchQueryStage(
    SpecialtyStage(
      InsuranceStage(
        AvailabilityStage(
          AdditionalStage(list, f), f), f), f), f)

C4_PredicatesIntersect ==
  IsSearch =>
    LET f == result.filter
        filtered == FilteredProviders(providers, f)
    IN /\ Len(filtered) = result.body.total
       /\ Ids(filtered) = {p.id : p \in Matching(f)}
       /\ \A g \in Weakenings(f) : Ids(filtered) \subseteq Ids(FilteredProviders(providers, g))
       /\ filtered = StagesInReverse(providers, f)

\* A search with a text query and a specialty that each keep a provider, and
\* no provider passes both.
C4_Witness ==
  /\ IsSearch
  /\ Truthy(result.filter.searchQuery)
  /\ Truthy(result.filter.specialty)
  /\ result.body.total = 0
  /\ \A g \in {[result.filter EXCEPT !.searchQuery = None],
               [result.filter EXCEPT !.specialty = None]} :
       Len(FilteredProviders(providers, g)) = 1

(***************************************************************************)
(* C5: with a non-empty searchQuery the search keeps exactly the providers *)
(* for which the query, ignoring letter case, is a substring of the name,  *)
(* the specialty, the formatted office address, the biography or one of    *)
(* the insurance names; the query "cardio" keeps Sarah Johnson, whose      *)
(* specialty is "Cardiology".                                              *)
(***************************************************************************)
\* The list the other predicates of f leave, the named field of f taken away.
Without(f, field) == FilteredProviders(providers, [f EXCEPT ![field] = None])

Elems(list) == {list[i] : i \in 1..Len(list)}

IsSarahJohnson(p) ==
  /\ p.name = <<"S","a","r","a","h">>
  /\ p.specialty = <<"C","a","r","d","i","o","l","o","g","y">>

C5_QueryIsSubstringIgnoringCase ==
  (IsSearch /\ Truthy(result.filter.searchQuery)) =>
    LET f == result.filter
        matching == {p \in Elems(Without(f, "searchQuery")) : PassesQuery(p, f)}
    IN /\ Elems(FilteredProviders(providers, f)) = matching
       /\ result.body.total = Cardinality(matching)
       /\ \A i \in 1..Len(result.body.providers) : PassesQuery(result.body.providers[i], f)
       /\ (/\ EqualIgnoringCase(Val(f.searchQuery), <<"c","a","r","d","i","o">>)
           /\ Without(f, "searchQuery") = providers
           /\ f.page = Some(1) /\ Val(f.limit) >= Len(providers))
          => \A i \in 1..Len(providers) :
               IsSarahJohnson(providers[i]) => providers[i].id \in Ids(result.body.providers)

\* The query "cardio" returns Sarah Johnson and leaves another provider out.
C5_Witness ==
  /\ IsSearch
  /\ result.filter.searchQuery = Some(<<"c","a","r","d","i","o">>)
  /\ Len(providers) = 2
  /\ Len(result.body.providers) = 1
  /\ IsSarahJohnson(result.body.providers[1])

(***************************************************************************)
(* C6: a searchQuery that is absent or "" restricts nothing: the filtered  *)
(* list is the one of the same filter without the searchQuery field, and   *)
(* with no other predicate it is the whole store.                          *)
(***************************************************************************)
NoOtherPredicate(f) ==
  /\ ~Truthy(f.specialty)
  /\ ~Truthy(f.insurance)
  /\ Present(f.availability) =>
       ~(Val(f.availability).today \/ Val(f.availability).thisWeek
           \/ Val(f.availability).weekends)
  /\ Present(f.additional) =>
       ~(Val(f.additional).acceptingNewPatients \/ Val(f.additional).virtualVisits
           \/ Val(f.additional).spanishSpeaking)

C6_EmptyQueryRestrictsNothing ==
  (IsSearch /\ ~Truthy(result.filter.searchQuery)) =>
    LET f == result.filter
    IN /\ FilteredProviders(providers, f) = Without(f, "searchQuery")
       /\ result.body.total = Len(Without(f, "searchQuery"))
       /\ NoOtherPredicate(f) =>
            /\ result.body.total = Len(providers)
            /\ FilteredProviders(providers, f) = providers

\* A search with the query "" and nothing else on a store of two providers.
C6_Witness ==
  /\ IsSearch
  /\ result.filter.searchQuery = Some(<<>>)
  /\ NoOtherPredicate(result.filter)
  /\ Len(providers) = 2
  /\ Len(result.body.providers) = 2

(***************************************************************************)
(* C7: with a non-empty specialty, every provider returned and counted has *)
(* a specialty equal to it ignoring letter case, and every stored provider *)
(* with such a specialty that passes the other predicates is counted; the  *)
(* specialty "Dermatology" leaves a "Cardiology" provider out.             *)
(***************************************************************************)
C7_SpecialtyEqualIgnoringCase ==
  (IsSearch /\ Truthy(result.filter.specialty)) =>
    LET f == result.filter
        matching == {p \in Elems(Without(f, "specialty")) :
                       EqualIgnoringCase(p.specialty, Val(f.specialty))}
    IN /\ \A i \in 1..Len(result.body.providers) :
            EqualIgnoringCase(result.body.providers[i].specialty, Val(f.specialty))
       /\ Elems(FilteredProviders(providers, f)) = matching
       /\ result.body.total = Cardinality(matching)
       /\ EqualIgnoringCase(Val(f.specialty), <<"d","e","r","m","a","t","o","l","o","g","y">>)
            => \A i \in 1..Len(result.body.providers) :
                 result.body.providers[i].specialty # <<"C","a","r","d","i","o","l","o","g","y">>

\* The specialty "DERMATOLOGY" returns the provider stored as "dermatology"
\* and leaves Sarah Johnson, a "Cardiology" provider, out.
C7_Witness ==
  /\ IsSearch
  /\ result.filter.specialty = Some(<<"D","E","R","M","A","T","O","L","O","G","Y">>)
  /\ \E i \in 1..Len(providers) : IsSarahJohnson(providers[i])
  /\ result.body.total = 1
  /\ Len(result.body.providers) = 1
  /\ result.body.providers[1].specialty = <<"d","e","r","m","a","t","o","l","o","g","y">>

(***************************************************************************)
(* C8: with a non-empty insurance name, every provider returned and        *)
(* counted lists an insurance name equal to it ignoring letter case; a     *)
(* provider listing none, or with no insurance list, is never returned.    *)
(***************************************************************************)
ListsInsurance(p, name) ==
  /\ Present(p.insurances)
  /\ \E i \in 1..Len(Val(p.insurances)) : EqualIgnoringCase(Val(p.insurances)[i], name)

C8_InsuranceListed ==
  (IsSearch /\ Truthy(result.filter.insurance)) =>
    /\ \A i \in 1..Len(result.body.providers) :
         ListsInsurance(result.body.providers[i], Val(result.filter.insurance))
    /\ result.body.total =
         Cardinality({p \in Elems(Without(result.filter, "insurance")) :
                        ListsInsurance(p, Val(result.filter.insurance))})

\* The insurance "aetna" returns the provider listing "AETNA" and not the
\* stored provider that has no insurance list.
C8_Witness ==
  /\ IsSearch
  /\ result.filter.insurance = Some(<<"a","e","t","n","a">>)
  /\ \E i \in 1..Len(providers) : ~Present(providers[i].insurances)
  /\ Len(result.body.providers) = 1
  /\ Val(result.body.providers[1].insurances) = <<<<"A","E","T","N","A">>>>

(***************************************************************************)
(* C9: availability filtering is token containment on the next-available   *)
(* text: today keeps the texts with "today"; thisWeek those with today,    *)
(* tomorrow or a weekday name; weekends those with saturday or sunday; a   *)
(* provider whose text is missing or has no recognized token is left out   *)
(* whenever a flag is set, and several set flags must all be satisfied.    *)
(***************************************************************************)
AnyAvailabilityFlag(f) ==
  /\ Present(f.availability)
  /\ (Val(f.availability).today \/ Val(f.availability).thisWeek
        \/ Val(f.availability).weekends)

RecognizedTokens ==
  Weekdays \cup {<<"t","o","d","a","y">>, <<"t","o","m","o","r","r","o","w">>,
                 <<"s","a","t","u","r","d","a","y">>, <<"s","u","n","d","a","y">>}

C9_AvailabilityByToken ==
  (IsSearch /\ AnyAvailabilityFlag(result.filter)) =>
    LET f == result.filter
        matching == {p \in Elems(Without(f, "availability")) : PassesAvailability(p, f)}
    IN /\ Elems(FilteredProviders(providers, f)) = matching
       /\ result.body.total = Cardinality(matching)
       /\ \A i \in 1..Len(result.body.providers) :
            /\ PassesAvailability(result.body.providers[i], f)
            /\ \E w \in RecognizedTokens : SlotHas(result.body.providers[i], w)

\* thisWeek and weekends together return the provider whose text names both a
\* weekday and sunday, and not the stored provider whose text says "today".
C9_Witness ==
  /\ IsSearch
  /\ Present(result.filter.availability)
  /\ Val(result.filter.availability) = [today |-> FALSE, thisWeek |-> TRUE, weekends |-> TRUE]
  /\ \E i \in 1..Len(providers) : SlotHas(providers[i], <<"t","o","d","a","y">>)
  /\ Len(result.body.providers) = 1
  /\ SlotHas(result.body.providers[1], <<"f","r","i","d","a","y">>)
  /\ SlotHas(result.body.providers[1], <<"s","u","n","d","a","y">>)

\* A flag set in a search over a provider with no next-available text and one
\* whose text has no recognized token: nothing is returned.
C9_WitnessNoToken ==
  /\ IsSearch
  /\ AnyAvailabilityFlag(result.filter)
  /\ Len(providers) = 2
  /\ \E i \in 1..2 : ~Present(providers[i].nextAvailable)
  /\ \E i \in 1..2 : /\ Present(providers[i].nextAvailable)
                     /\ \A w \in RecognizedTokens : ~SlotHas(providers[i], w)
  /\ result.body.total = 0

(***************************************************************************)
(* C10: each additional flag that is set restricts the result further:     *)
(* acceptingNewPatients and virtualVisits by the provider's flag,          *)
(* spanishSpeaking by "spanish" being in the language list ignoring case   *)
(* (not by the isSpanishSpeaking column); a flag that is false or absent   *)
(* restricts nothing.                                                      *)
(***************************************************************************)
C10_AdditionalFlags ==
  (IsSearch /\ Present(result.filter.additional)) =>
    LET f == result.filter
        a == Val(f.additional)
        rest == Elems(Without(f, "additional"))
        matching == {p \in rest : PassesAdditional(p, f)}
    IN /\ Elems(FilteredProviders(providers, f)) = matching
       /\ result.body.total = Cardinality(matching)
       /\ \A i \in 1..Len(result.body.providers) :
            PassesAdditional(result.body.providers[i], f)
       /\ ~(a.acceptingNewPatients \/ a.virtualVisits \/ a.spanishSpeaking)
            => FilteredProviders(providers, f) = Without(f, "additional")

\* spanishSpeaking returns the provider whose languages are <<"SPANISH">> and
\* whose column says no, and not the stored provider whose column says yes and
\* whose language list has no "spanish".
C10_Witness ==
  /\ IsSearch
  /\ Present(result.filter.additional)
  /\ Val(result.filter.additional).spanishSpeaking
  /\ Len(providers) = 2
  /\ Len(result.body.providers) = 1
  /\ result.body.providers[1].isSpanishSpeaking = Some(FALSE)
  /\ \E i \in 1..2 : /\ providers[i].isSpanishSpeaking = Some(TRUE)
                     /\ providers[i].id \notin Ids(result.body.providers)

(***************************************************************************)
(* The lists the two listing operations return, and the page after them.   *)
(***************************************************************************)
IsListing == IsGetProviders \/ IsSearch

Returned == result.body.providers

ResultSort == IF IsGetProviders THEN result.sort ELSE Val(result.filter.sort)

\* The list the same call returns for the next page number.
NextPageReturned ==
  IF IsGetProviders
    THEN getProviders(result.page + 1, result.limit, result.sort).providers
    ELSE searchProviders(
           [result.filter EXCEPT !.page = Some(Val(result.filter.page) + 1)]).providers

(***************************************************************************)
(* C11: with sort = rating every returned list is in non-increasing order  *)
(* of rating, and the next page goes on in that order: the last item of a  *)
(* page has a rating >= the first item of the page after it.               *)
(***************************************************************************)
C11_RatingDescending ==
  (IsListing /\ ResultSort = "rating") =>
    /\ \A i \in 1..(Len(Returned) - 1) : Returned[i].rating >= Returned[i + 1].rating
    /\ (Returned # <<>> /\ NextPageReturned # <<>>)
         => Returned[Len(Returned)].rating >= NextPageReturned[1].rating

\* The list endpoint sorted by rating, one item a page, over a store whose
\* second provider is rated higher than the first: page 1 is the second one.
C11_Witness ==
  /\ IsGetProviders
  /\ result.sort = "rating"
  /\ result.page = 1 /\ result.limit = 1
  /\ Len(providers) = 2
  /\ providers[1].rating < providers[2].rating
  /\ Returned = <<providers[2]>>
  /\ NextPageReturned = <<providers[1]>>

(***************************************************************************)
(* C12: with sort = distance the results are in non-decreasing order of    *)
(* distance, a provider with no distance counting as distance 0.           *)
(***************************************************************************)
DistanceOf(p) == IF p.distance = None THEN 0 ELSE p.distance[1]

C12_DistanceAscending ==
  (IsListing /\ ResultSort = "distance") =>
    /\ \A i \in 1..(Len(Returned) - 1) : DistanceOf(Returned[i]) <= DistanceOf(Returned[i + 1])
    /\ (Returned # <<>> /\ NextPageReturned # <<>>)
         => DistanceOf(Returned[Len(Returned)]) <= DistanceOf(NextPageReturned[1])

\* A provider with no distance listed before one stored earlier at distance 2.3.
C12_Witness ==
  /\ IsListing
  /\ ResultSort = "distance"
  /\ Len(Returned) = 2
  /\ Returned[1].distance = None
  /\ Returned[2].distance = Some(23)
  /\ Returned[1].id > Returned[2].id

(***************************************************************************)
(* C13: with sort = availability every provider whose next-available text  *)
(* contains "today" precedes every provider whose text does not; among the *)
(* rest, "tomorrow" precedes those with neither; providers that tie on     *)
(* both tests keep their insertion order.                                  *)
(***************************************************************************)
SaysToday(p) == SlotHas(p, <<"t","o","d","a","y">>)

SaysTomorrow(p) == SlotHas(p, <<"t","o","m","o","r","r","o","w">>)

\* a may come before b in a list sorted by availability.
AvailabilityOrdered(a, b) ==
  /\ SaysToday(b) => SaysToday(a)
  /\ (~SaysToday(a) /\ SaysTomorrow(b)) => SaysTomorrow(a)
  /\ (SaysToday(a) <=> SaysToday(b)) /\ (SaysTomorrow(a) <=> SaysTomorrow(b))
       => a.id < b.id

C13_WitnessToday ==
  /\ IsListing
  /\ ResultSort = "availability"
  /\ Len(Returned) = 2
  /\ SaysToday(Returned[1]) /\ SaysTomorrow(Returned[2])
  /\ Returned[1].id > Returned[2].id

(***************************************************************************)
(* C14: with sort = relevance, and when sort is omitted or is not one of   *)
(* the four known keys, the results are in non-increasing order of the     *)
(* score rating * ln(reviewCount + 1); a provider with zero reviews has    *)
(* score 0 whatever its rating, so it never precedes a provider with a     *)
(* strictly positive score.                                                *)
(***************************************************************************)
ScoreOf(p) == IF p.reviewCount = 0 THEN 0 ELSE p.rating * LogMicro(p.reviewCount + 1)

ScoreOrdered(a, b) ==
  /\ ScoreOf(a) >= ScoreOf(b)
  /\ ~(a.reviewCount = 0 /\ ScoreOf(b) > 0)

C14_RelevanceDescending ==
  (IsListing /\ ResultSort \notin {"distance", "rating", "availability"}) =>
    /\ \A i, j \in 1..Len(Returned) : i < j => ScoreOrdered(Returned[i], Returned[j])
    /\ \A i \in 1..Len(Returned) : \A j \in 1..Len(NextPageReturned) :
         ScoreOrdered(Returned[i], NextPageReturned[j])

\* An unknown sort key: a provider with the higher rating and no reviews,
\* stored first, is listed after one with reviews.
C14_Witness ==
  /\ IsGetProviders
  /\ result.sort = "newest"
  /\ Len(Returned) = 2
  /\ Returned[2].reviewCount = 0
  /\ Returned[2].rating > Returned[1].rating
  /\ ScoreOf(Returned[1]) > 0
  /\ Returned[2].id < Returned[1].id

\* The default of a filter without a sort key: the same order.
C14_WitnessDefault ==
  /\ IsSearch
  /\ ResultSort = "relevance"
  /\ Len(Returned) = 2
  /\ Returned[2].reviewCount = 0
  /\ Returned[2].rating > Returned[1].rating
  /\ Returned[2].id < Returned[1].id

(***************************************************************************)
(* C16: createProvider assigns ids sequentially from 1: after n creations  *)
(* the stored ids are exactly 1..n, all distinct, each record is stored    *)
(* under its own id, and the returned record carries that id.              *)
(***************************************************************************)
IsCreateProvider == result.op = "createProvider"

IdsAreSequential ==
  /\ {p.id : p \in Stored} = 1..Len(providers)
  /\ \A i, j \in 1..Len(providers) : providers[i].id = providers[j].id => i = j
  /\ \A i \in 1..Len(providers) : providers[i].id = i
  /\ IsCreateProvider =>
       /\ result.provider.id = Len(providers)
       /\ result.provider \in Stored

\* A step that answers a createProvider call: the id is one more than the
\* number of creations before it, and the record joins the stored ones.
CreationTakesNextId ==
  (result.op = "none" /\ result'.op = "createProvider") =>
    /\ result'.provider.id = Cardinality(Stored) + 1
    /\ Cardinality({providers'[i] : i \in 1..Len(providers')}) = Cardinality(Stored) + 1

C16_SequentialIds == []IdsAreSequential /\ [][CreationTakesNextId]_vars

\* The second creation returned id 2.
C16_Witness ==
  /\ IsCreateProvider
  /\ result.provider.id = 2
  /\ {p.id : p \in Stored} = {1, 2}

(***************************************************************************)
(* C17: getProvider(id) returns the stored provider whose id equals id     *)
(* when one exists and otherwise nothing, without an error; at the API an  *)
(* id with no stored provider yields 404, never 500.                       *)
(***************************************************************************)
IsGetProvider == result.op = "getProvider"

C17_GetProvider ==
  IsGetProvider =>
    /\ result.status \in {200, 400, 404}
    /\ result.status # 400 =>
         IF \E p \in Stored : p.id = result.id
           THEN /\ result.status = 200
                /\ result.body.id = result.id
                /\ result.body \in Stored
           ELSE result.status = 404

\* An id beyond the stored ones, on a store that is not empty.
C17_Witness ==
  /\ IsGetProvider
  /\ result.status = 404
  /\ result.id = Len(providers) + 1
  /\ Len(providers) = 2

\* The second of two stored providers is found.
C17_WitnessFound ==
  /\ IsGetProvider
  /\ result.status = 200
  /\ result.id = 2
  /\ result.body = providers[2]

(***************************************************************************)
(* C18: providers are immutable once created: no operation removes or      *)
(* modifies a stored provider; every id that was stored before a step maps *)
(* to the same record after it.                                            *)
(***************************************************************************)
C18_Immutable ==
  [][\A p \in Stored : \E i \in 1..Len(providers') :
        /\ providers'[i] = p
        /\ \A j \in 1..Len(providers') : providers'[j].id = p.id => j = i]_vars

\* After a second creation and a later read, the first provider is still the
\* record the first creation stored.
C18_Witness ==
  /\ IsGetProvider
  /\ result.status = 200
  /\ result.id = 1
  /\ Len(providers) = 2
  /\ result.body = providers[1]

(***************************************************************************)
(* C20: every filter that passes validation and is handed to               *)
(* searchProviders has page >= 1, limit > 0 and a sort key among           *)
(* relevance, distance, availability and rating.                           *)
(***************************************************************************)
C20_ValidatedFilterInvariant ==
  IsSearch =>
    /\ Val(result.filter.page) >= 1
    /\ Val(result.filter.limit) > 0
    /\ Val(result.filter.sort) \in {"relevance", "distance", "availability", "rating"}

\* The part of it that the schema's enum does enforce.
ValidatedSortKey ==
  IsSearch => Val(result.filter.sort) \in {"relevance", "distance", "availability", "rating"}

(***************************************************************************)
(* C15: the relevance score is monotonic: for a fixed review count it does *)
(* not decrease when the rating increases, and for a fixed rating it does  *)
(* not decrease when the review count increases, for every rating and      *)
(* review count a stored provider can have.                                *)
(***************************************************************************)
IsScores == result.op = "relevanceScores"

MonotonicInRating ==
  (result.a.reviewCount = result.b.reviewCount /\ result.a.rating <= result.b.rating)
    => (result.scoreA <= result.scoreB /\ result.compare >= 0)

MonotonicInReviewCount ==
  (result.a.rating = result.b.rating /\ result.a.reviewCount <= result.b.reviewCount)
    => (result.scoreA <= result.scoreB /\ result.compare >= 0)

C15_ScoreMonotonic == IsScores => (MonotonicInRating /\ MonotonicInReviewCount)

\* The same for ratings that are not negative.
C15_ScoreMonotonicNonNegative ==
  (IsScores /\ result.a.rating >= 0 /\ result.b.rating >= 0)
    => (MonotonicInRating /\ MonotonicInReviewCount)

\* The rating alone: it holds for the negative ratings too.
ScoreMonotonicInRating == IsScores => MonotonicInRating

\* The same positive rating with more reviews scores strictly higher.
C15_Witness ==
  /\ IsScores
  /\ result.a.rating = result.b.rating
  /\ result.a.rating > 0
  /\ result.a.reviewCount < result.b.reviewCount
  /\ result.scoreA < result.scoreB

\* The same review count with a higher rating scores strictly higher.
C15_WitnessRating ==
  /\ IsScores
  /\ result.a.reviewCount = result.b.reviewCount
  /\ result.a.reviewCount > 0
  /\ 0 <= result.a.rating
  /\ result.a.rating < result.b.rating
  /\ result.scoreA < result.scoreB

(***************************************************************************)
(* C19: specialties and insurance plans are deduplicated by name:          *)
(* getSpecialties and getInsurancePlans never list the same name twice,    *)
(* and creating a name that exists already leaves the listed names         *)
(* unchanged.                                                              *)
(***************************************************************************)
NoNameTwice(list) == \A i, j \in 1..Len(list) : list[i] = list[j] => i = j

NoRepeatedNames ==
  /\ NoNameTwice(specialties)
  /\ NoNameTwice(insurancePlans)
  /\ result.op \in {"getSpecialties", "getInsurancePlans"} => NoNameTwice(result.body)
  /\ result.op = "getSpecialties" => result.body = specialties
  /\ result.op = "getInsurancePlans" => result.body = insurancePlans

CreatingExistingChangesNothing ==
  /\ (result.op = "none" /\ result'.op = "createSpecialty"
        /\ result'.specialty.name \in Elems(specialties))
       => specialties' = specialties
  /\ (result.op = "none" /\ result'.op = "createInsurancePlan"
        /\ result'.plan.name \in Elems(insurancePlans))
       => insurancePlans' = insurancePlans

C19_Deduplicated == []NoRepeatedNames /\ [][CreatingExistingChangesNothing]_vars

\* A seeded specialty created again, twice: the list is the seeded one.
C19_Witness ==
  /\ result.op = "createSpecialty"
  /\ result.specialty.name = "Cardiology"
  /\ result.specialty.id = 2
  /\ specialties = SeedSpecialties

\* A new insurance plan created twice is listed once, after the seeded ones.
C19_WitnessNew ==
  /\ result.op = "getInsurancePlans"
  /\ currentInsurancePlanId = 3
  /\ result.body = Append(SeedInsurancePlans, "Tricare")

(***************************************************************************)
(* C21: POST /providers/filter with a body that fails the filter schema    *)
(* returns 400 with the field errors; searchProviders is not called and    *)
(* the store is unchanged; only a body that passes validation reaches      *)
(* storage.                                                                *)
(***************************************************************************)
IsFilterCall == result.op = "searchProviders"

FourSortKeys == {"relevance", "distance", "availability", "rating"}

\* The body names a sort key that is not one of the four.
HasBadSort(body) == body.sort # None /\ body.sort[1] \notin FourSortKeys

RejectedOrValid ==
  IsFilterCall =>
    /\ result.status = 400 =>
         /\ HasBadSort(result.request)
         /\ result.errors = <<"sort">>
         /\ "body" \notin DOMAIN result
    /\ result.status = 200 => ~HasBadSort(result.filter)

RejectionLeavesStore ==
  (result.op = "none" /\ result'.op = "searchProviders" /\ result'.status = 400)
    => UNCHANGED <<providers, currentProviderId, specialties, insurancePlans,
                   currentSpecialtyId, currentInsurancePlanId>>

C21_InvalidBodyRejected == []RejectedOrValid /\ [][RejectionLeavesStore]_vars

\* A body with the sort key "newest", on a store of two providers.
C21_Witness ==
  /\ IsFilterCall
  /\ result.status = 400
  /\ result.request.sort = Some("newest")
  /\ result.errors = <<"sort">>
  /\ Len(providers) = 2

(***************************************************************************)
(* C22: searchProviders never throws: for every filter that passes         *)
(* validation and every reachable store, providers with missing optional   *)
(* fields included, it returns {providers, total, location}.               *)
(***************************************************************************)
C22_SearchNeverThrows ==
  (IsFilterCall /\ result.status # 400) =>
    /\ result.status = 200
    /\ DOMAIN result.body = {"providers", "total", "location"}

\* A text query, an insurance and the Spanish flag against a provider whose
\* insurances, languages and next-available text are null.
C22_Witness ==
  /\ IsSearch
  /\ \E p \in Stored : p.insurances = None /\ p.languages = None /\ p.nextAvailable = None
  /\ result.filter.searchQuery # None /\ result.filter.searchQuery # Some(<<>>)
  /\ DOMAIN result.body = {"providers", "total", "location"}

(***************************************************************************)
(* C23: each storage call runs to completion before the next one: under    *)
(* any interleaving of concurrent requests no two createProvider calls     *)
(* obtain the same id, no insertion is lost, and every read sees the store *)
(* as it is after some prefix of the creations.                            *)
(***************************************************************************)
PrefixOfCreations(k) == {providers[i] : i \in 1..k}

\* The answer r of a read is the one a store holding the first k creations,
\* and nothing else, gives.
SeesPrefix(r, k) ==
  LET seen == IF r.op = "getProviders"
                THEN PrefixOfCreations(k)
                ELSE {p \in PrefixOfCreations(k) : PassesAll(p, r.filter)}
  IN /\ r.body.total = Cardinality(seen)
     /\ Len(r.body.providers) = Cardinality(seen)
     /\ {r.body.providers[i] : i \in 1..Len(r.body.providers)} = seen

C23_RunToCompletion ==
  IsEventLoop =>
    /\ \A r1, r2 \in Awaiting :
         (r1.op = "createProvider" /\ r2.op = "createProvider" /\ r1 # r2)
           => r1.provider.id # r2.provider.id
    /\ \A r \in Awaiting : r.op = "createProvider" => r.provider \in Stored
    /\ \A i, j \in 1..Len(providers) : providers[i].id = providers[j].id => i = j
    /\ Len(providers) = currentProviderId - 1
    /\ \A r \in Awaiting :
         r.op # "createProvider" => \E k \in 0..Len(providers) : SeesPrefix(r, k)

\* A read that saw the first creation only is still in flight with the
\* answer of the second creation.
C23_Witness ==
  /\ IsEventLoop
  /\ Len(providers) = 2
  /\ \E r \in Awaiting : r.op = "getProviders" /\ r.body.total = 1
  /\ \E r \in Awaiting : r.op = "createProvider" /\ r.provider.id = 2

(***************************************************************************)
(* C24: the location of a searchProviders response is the fixed            *)
(* placeholder when the filter has no zip code (absent or empty) and the   *)
(* string templated from the zip code otherwise, whichever providers       *)
(* match; getProviders always returns the placeholder.                     *)
(***************************************************************************)
Placeholder == <<"N","e","w"," ","Y","o","r","k",","," ","N","Y">>

NoZip(f) == f.zipCode = None \/ f.zipCode = <<<<>>>>

C24_Location ==
  /\ IsGetProviders => result.body.location = Placeholder
  /\ IsSearch =>
       result.body.location =
         IF NoZip(result.filter)
           THEN Placeholder
           ELSE <<"A","r","e","a"," ","n","e","a","r"," ">> \o result.filter.zipCode[1]

\* A zip code with no provider matching: the location is the templated one.
C24_Witness ==
  /\ IsSearch
  /\ result.filter.zipCode = <<<<"1","0">>>>
  /\ providers # <<>>
  /\ result.body.total = 0
  /\ result.body.location = <<"A","r","e","a"," ","n","e","a","r"," ","1","0">>

\* The empty zip code: the placeholder.
C24_WitnessEmptyZip ==
  /\ IsSearch
  /\ result.filter.zipCode = <<<<>>>>
  /\ result.body.location = Placeholder

(***************************************************************************)
(* C25: pagination partitions the result: for a fixed store, filter, sort  *)
(* and limit > 0 the pages 1..ceil(total/limit), one after the other, are  *)
(* the filtered set in sorted order, every provider once, and every page   *)
(* beyond is empty and reports the same total.                             *)
(***************************************************************************)
ResultLimit == IF IsGetProviders THEN result.limit ELSE Val(result.filter.limit)

\* The answer to the same request for page k.
PageOf(k) ==
  IF IsGetProviders
    THEN getProviders(k, result.limit, result.sort)
    ELSE searchProviders([result.filter EXCEPT !.page = Some(k)])

\* The answer to the same request for the whole result as one page.
OnePage ==
  IF IsGetProviders
    THEN getProviders(1, Len(providers) + 1, result.sort)
    ELSE searchProviders([result.filter EXCEPT !.page = Some(1),
                                                !.limit = Some(Len(providers) + 1)])

LastPage == (result.body.total + ResultLimit - 1) \div ResultLimit

RECURSIVE PagesUpTo(_)
PagesUpTo(k) == IF k <= 0 THEN <<>> ELSE PagesUpTo(k - 1) \o PageOf(k).providers

FilteredSet == IF IsGetProviders THEN Stored ELSE Matching(result.filter)

C25_PagesPartition ==
  (IsListing /\ ResultLimit > 0) =>
    /\ Len(PagesUpTo(LastPage)) = Cardinality(FilteredSet)
    /\ {PagesUpTo(LastPage)[i] : i \in 1..Len(PagesUpTo(LastPage))} = FilteredSet
    /\ PagesUpTo(LastPage) = OnePage.providers
    /\ \A k \in 1..LastPage : PageOf(k).providers # <<>> /\ PageOf(k).total = result.body.total
    /\ \A k \in (LastPage + 1)..(LastPage + 2) :
         PageOf(k).providers = <<>> /\ PageOf(k).total = result.body.total

\* Two providers on two pages of one, the second page being the one asked.
C25_Witness ==
  /\ IsGetProviders
  /\ result.limit = 1
  /\ result.page = 2
  /\ LastPage = 2
  /\ Len(result.body.providers) = 1
  /\ PagesUpTo(2) = <<PageOf(1).providers[1], result.body.providers[1]>>
  /\ PageOf(1).providers[1] # result.body.providers[1]

(***************************************************************************)
(* C26: searchProviders with a filter that sets no predicate and no zip    *)
(* code returns the same providers in the same order, the same total and   *)
(* the same location as getProviders with the same page, limit and sort.   *)
(***************************************************************************)
SetsNoPredicate(f) ==
  /\ f.searchQuery = None \/ f.searchQuery = <<<<>>>>
  /\ NoOtherPredicate(f)
  /\ NoZip(f)

C26_EmptyFilterIsGetProviders ==
  (IsSearch /\ SetsNoPredicate(result.filter)) =>
    result.body = getProviders(Val(result.filter.page), Val(result.filter.limit),
                               Val(result.filter.sort))

\* Two providers that the rating order lists the other way round.
C26_Witness ==
  /\ IsSearch
  /\ SetsNoPredicate(result.filter)
  /\ result.filter.sort = Some("rating")
  /\ Len(providers) = 2
  /\ result.body.providers = <<providers[2], providers[1]>>

(***************************************************************************)
(* C27: the reads getProviders, getProvider, searchProviders,              *)
(* getSpecialties and getInsurancePlans leave the whole store unchanged:   *)
(* the provider map and its order, the two name sets and the three         *)
(* counters; the same read on the unchanged store gives the same result.   *)
(***************************************************************************)
ReadOps == {"getProviders", "getProvider", "searchProviders",
            "getSpecialties", "getInsurancePlans"}

ReadLeavesStore ==
  (result.op = "none" /\ result'.op \in ReadOps) =>
    /\ providers' = providers
    /\ specialties' = specialties
    /\ insurancePlans' = insurancePlans
    /\ currentProviderId' = currentProviderId
    /\ currentSpecialtyId' = currentSpecialtyId
    /\ currentInsurancePlanId' = currentInsurancePlanId

\* The read, made again on the store it left, gives the result it gave.
ReadRepeats ==
  /\ IsGetProviders => result.body = getProviders(result.page, result.limit, result.sort)
  /\ IsSearch => result.body = searchProviders(result.filter)
  /\ (IsGetProvider /\ result.status = 200) => Some(result.body) = getProvider(result.id)
  /\ result.op = "getSpecialties" => result.body = specialties
  /\ result.op = "getInsurancePlans" => result.body = insurancePlans

C27_ReadsLeaveStore == [][ReadLeavesStore]_vars /\ []ReadRepeats

\* A list in rating order that differs from the stored order, which is as it
\* was.
C27_Witness ==
  /\ IsGetProviders
  /\ result.sort = "rating"
  /\ Len(providers) = 2
  /\ providers[1].id = 1 /\ providers[2].id = 2
  /\ result.body.providers = <<providers[2], providers[1]>>

(***************************************************************************)
(* C28: when the user picks "All Specialties" (or "Select Insurance") in   *)
(* the sidebar and applies the filters, the search imposes no specialty    *)
(* (or insurance) restriction: it returns what it returns with that        *)
(* dropdown left untouched.                                                *)
(***************************************************************************)
AllOption == <<"a","l","l">>

\* The applied filters with the dropdowns that show the "all" item put back
\* to the untouched state.
DropdownsUntouched(f) ==
  [f EXCEPT !.specialty = IF @ = AllOption THEN <<>> ELSE @,
            !.insurance = IF @ = AllOption THEN <<>> ELSE @]

C28_AllOptionRestrictsNothing ==
  (IsHome /\ result.data # None /\ result.filters # None) =>
    result.data = QueryResponse(Some(DropdownsUntouched(result.filters[1])),
                                result.currentPage, result.sortOption)

(***************************************************************************)
(* C29: in the results page, after any sequence of user actions, whenever  *)
(* the pagination control is shown 1 <= currentPage <= totalPages:         *)
(* applying or clearing filters and changing the sort reset the page to 1, *)
(* Previous is disabled on page 1, Next on the last page, and the page     *)
(* buttons offered are all within 1..totalPages.                           *)
(***************************************************************************)
\* The number of pages of ten that hold total items.
PagesNeeded(total) == CHOOSE n \in 1..total : n * 10 >= total /\ (n - 1) * 10 < total

ControlShown == result.data # None /\ result.data[1].total > 0

PageWithinRange ==
  (IsHome /\ ControlShown) =>
    LET last == PagesNeeded(result.data[1].total)
        buttons == GetPageNumbers(result.currentPage, last)
    IN /\ 1 <= result.currentPage
       /\ result.currentPage <= last
       /\ \A i \in 1..Len(buttons) : buttons[i] # Ellipsis => buttons[i] \in 1..last
       /\ result.currentPage = 1 => ~ENABLED ClickPrevious
       /\ result.currentPage = last => ~ENABLED ClickNext

ChangeResetsPage ==
  (IsHome /\ (result'.filters # result.filters \/ result'.sortOption # result.sortOption))
    => result'.currentPage = 1

C29_CurrentPageInRange == []PageWithinRange /\ [][ChangeResetsPage]_vars

\* The last of three pages is shown, reached with Next or a page button.
C29_Witness ==
  /\ IsHome
  /\ ControlShown
  /\ result.currentPage = 3
  /\ PagesNeeded(result.data[1].total) = 3
  /\ Len(result.data[1].providers) = 3

(***************************************************************************)
(* C30: the client's page count agrees with the server's page size:        *)
(* totalPages = ceil(total / 10), the list request sends limit=10 and the  *)
(* filter request leaves the limit to its default 10, so each provider of  *)
(* the filtered set is on exactly one page in 1..totalPages and no page in *)
(* that range comes back empty.                                            *)
(***************************************************************************)
\* The providers of page k of the query the page shows.
ClientPage(k) == QueryResponse(result.filters, k, result.sortOption)[1].providers

\* The providers the applied filters select from the store.
ClientFilteredSet ==
  IF result.filters = None
    THEN Stored
    ELSE Matching(ParseFilter(FilterRequestBody(result.filters[1], 1, result.sortOption)))

\* Pages 1..k of that query, one after the other.
RECURSIVE ClientPagesUpTo(_)
ClientPagesUpTo(k) == IF k <= 0 THEN <<>> ELSE ClientPagesUpTo(k - 1) \o ClientPage(k)

PagesCoverFilteredSet ==
  LET all == ClientPagesUpTo(TotalPages(result.data))
  IN /\ Len(all) = Cardinality(ClientFilteredSet)
     /\ {all[i] : i \in 1..Len(all)} = ClientFilteredSet

NoPageEmpty == \A k \in 1..TotalPages(result.data) : ClientPage(k) # <<>>

C30_PageCountAgrees ==
  (IsHome /\ result.data # None) => (PagesCoverFilteredSet /\ NoPageEmpty)

\* The same where the filtered set is not empty; an empty one has the one
\* page, which is empty.
C30_PageCountAgreesNonEmpty ==
  (IsHome /\ result.data # None) =>
    /\ PagesCoverFilteredSet
    /\ result.data[1].total > 0 => NoPageEmpty
    /\ result.data[1].total = 0 => (TotalPages(result.data) = 1 /\ ClientPage(1) = <<>>)

\* Ten providers pass the applied filters: one full page and no second one.
C30_Witness ==
  /\ IsHome
  /\ result.data # None
  /\ result.filters # None
  /\ result.data[1].total = 10
  /\ TotalPages(result.data) = 1
  /\ Len(ClientPage(1)) = 10

\* The 23 providers of the list request on three pages, the last with three.
C30_WitnessList ==
  /\ IsHome
  /\ result.data # None
  /\ result.filters = None
  /\ TotalPages(result.data) = 3
  /\ Len(ClientPage(3)) = 3

====
